---- MODULE Spec2Model ----
(***************************************************************************)
(* TIGAS renderer/encoder driver: main() of main.cpp driving one           *)
(* GaussianRenderer, the VideoEncoder instances of tigas_encoder.cpp and   *)
(* the MetadataWriter.  The codec/muxer library is the environment: its    *)
(* return codes (allocation failures, send/receive/write errors, how many  *)
(* packets a receive loop yields) are inputs drawn by \E.                  *)
(***************************************************************************)
EXTENDS Integers, Sequences, FiniteSets, TLC

VARIABLES
    args,             \* Args after parse_args (main.cpp:17-30)
    trace,            \* elements of the JSON array of the movement trace file
    registered,       \* encoder names the codec library has registered
    movement,         \* std::vector<MovementSample> movement (main.cpp:100)
    pc,               \* position of main()
    first_frame,      \* main.cpp:106
    frame,            \* loop-local frame (main.cpp:141)
    i,                \* index of the sample the range-for is at (1-based)
    e,                \* index of the encoder the fan-out / flush is at
    encoders,         \* lossless (if any), lossy, ladder encoders, in list order
    failed_ctor,      \* the VideoEncoder whose constructor threw, if any
    metadata_writer,  \* "none" | "open" | "closed"
    sidecar,          \* characters written to frame_metadata.csv
    files,            \* paths created under output_dir
    render_log,       \* frame_id of every sample handed to renderer.render
    call_log,         \* every encode_frame / flush call on an encoder, in call order
    error,            \* an exception is propagating to / was caught at main.cpp:180
    exit_code,        \* value main returns; -1 while running
    faults,           \* failures the codec library and the file system returned so far
    ply_file,         \* the file at args.ply_path, as the file system holds it
    cuda_available,   \* what cuda_backend::available() returns in this build
    renderer,         \* the GaussianRenderer (tigas_renderer.hpp:29-44)
    backend_log,      \* one entry per GaussianRenderer::render call: the path it took
    now,              \* std::chrono::steady_clock, in milliseconds
    start_clock,      \* main.cpp:138
    pace_log,         \* one entry per loop iteration: when it started, whether it slept
    packet,           \* the AVPacket prepend_sei_packet works on
    prepend_call      \* the call of prepend_sei_packet: what it was handed, how it ended

\* the state of main() and of the encoders
main_vars == <<args, trace, registered, movement, pc, first_frame, frame, i, e,
               encoders, failed_ctor, metadata_writer, sidecar, files, render_log,
               call_log, error, exit_code, faults>>

env_vars == <<ply_file, cuda_available>>

renderer_vars == <<renderer, backend_log>>

clock_vars == <<now, start_clock, pace_log>>

sei_vars == <<packet, prepend_call>>

vars == <<args, trace, registered, movement, pc, first_frame, frame, i, e,
          encoders, failed_ctor, metadata_writer, sidecar, files, render_log,
          call_log, error, exit_code, faults, ply_file, cuda_available,
          renderer, backend_log, now, start_clock, pace_log, packet, prepend_call>>

----------------------------------------------------------------------------
(* Bounds of the model *)

MaxFrames == 2       \* longest movement trace
NvencDelay == 1      \* frames an NVENC encoder holds back before it yields packets
MaxFaults == 1       \* failures returned by the codec library and the file system in one run
MaxOversleep == 1    \* milliseconds sleep_until returns after its target, at most
MaxLadder == 3       \* most tokens of --crf-ladder
MaxRenders == 3      \* most render calls on one renderer
MaxVertices == 2     \* largest vertex count of a PLY header, most lines of an ASCII body
MaxProps == 2        \* most property lines of the vertex element
MaxPayload == 4      \* most bytes of a packet payload
TickMs == 8          \* milliseconds the clock advances in one step
MaxClock == 32       \* the clock stops advancing by itself here

(* Program constants *)

MinWidth == 64
MaxWidth == 1280
MinHeight == 64
MaxHeight == 720
DefaultMaxFrames == 600
DefaultCrf == 26
DefaultWidth == 800
DefaultHeight == 600

----------------------------------------------------------------------------
(* Inputs *)

RECURSIVE SeqsUpTo(_, _)
SeqsUpTo(S, n) ==
    IF n = 0 THEN { <<>> }
    ELSE LET shorter == SeqsUpTo(S, n - 1)
         IN  shorter \cup { Append(s, x) : s \in { t \in shorter : Len(t) = n - 1 }, x \in S }

AllEncoders == { "ffv1", "libx264", "libx265", "h264_nvenc", "hevc_nvenc" }
SoftwareEncoders == { "ffv1", "libx264", "libx265" }

\* --codec and the encoders the codec library has registered on the machine
CodecSetups ==
    { << "libx264", AllEncoders >>,
      << "h264_nvenc", AllEncoders >>,
      << "hevc_nvenc", SoftwareEncoders >>,
      << "h264_nvenc", { "ffv1" } >> }

Ladders == { <<>>, <<26, 28>> }

----------------------------------------------------------------------------
(* Text formatting: operator<< / std::to_string of an integer *)

Digit(d) == CASE d = 0 -> "0" [] d = 1 -> "1" [] d = 2 -> "2" [] d = 3 -> "3"
              [] d = 4 -> "4" [] d = 5 -> "5" [] d = 6 -> "6" [] d = 7 -> "7"
              [] d = 8 -> "8" [] d = 9 -> "9"

RECURSIVE NatToStr(_)
NatToStr(n) == IF n < 10 THEN << Digit(n) >>
               ELSE Append(NatToStr(n \div 10), Digit(n % 10))

to_string(n) == IF n < 0 THEN << "-" >> \o NatToStr(-n) ELSE NatToStr(n)

----------------------------------------------------------------------------
(* 64-bit integers and the integers of a JSON text *)

\* A 64-bit two's-complement number as its two 32-bit words, each written as the
\* signed 32-bit number that has the same bits.
Int64(hi, lo) == [hi |-> hi, lo |-> lo]

\* the 32-bit word made of two 16-bit halves
Word(upper, lower) ==
    (IF upper >= 32768 THEN upper - 65536 ELSE upper) * 65536 + lower

DigitValue(c) == CHOOSE d \in 0..9 : Digit(d) = c

\* limbs * 10 + d modulo 2^64, on four 16-bit limbs, the least significant first
MulAdd(limbs, d) ==
    LET t1 == limbs[1] * 10 + d
        c1 == (t1 - (t1 % 65536)) \div 65536
        t2 == limbs[2] * 10 + c1
        c2 == (t2 - (t2 % 65536)) \div 65536
        t3 == limbs[3] * 10 + c2
        c3 == (t3 - (t3 % 65536)) \div 65536
        t4 == limbs[4] * 10 + c3
    IN  << t1 % 65536, t2 % 65536, t3 % 65536, t4 % 65536 >>

RECURSIVE ParseDigits(_, _, _)
ParseDigits(text, sign, limbs) ==
    IF text = <<>> THEN limbs
    ELSE ParseDigits(Tail(text), sign, MulAdd(limbs, sign * DigitValue(Head(text))))

\* The number an integer token of the JSON text denotes, as the parser stores it:
\* a 64-bit integer (tigas_trace.cpp:17).
json_integer(text) ==
    LET negative == Head(text) = "-"
        l == ParseDigits(IF negative THEN Tail(text) ELSE text,
                         IF negative THEN -1 ELSE 1, << 0, 0, 0, 0 >>)
    IN  Int64(Word(l[4], l[3]), Word(l[2], l[1]))

\* int -> int64_t: the value kept, the sign extended into the upper word
int64_t(x) == Int64(IF x < 0 THEN -1 ELSE 0, x)

----------------------------------------------------------------------------
(* tigas_trace.cpp *)

\* trace elements: tMs, width, height as the JSON carries them
TraceItems ==
    { [tMs |-> json_integer(<< "0" >>), width |-> DefaultWidth, height |-> DefaultHeight],
      [tMs |-> json_integer(<< "1", "6" >>), width |-> 32, height |-> 0],
      [tMs |-> json_integer(<< "-", "5" >>), width |-> 2000, height |-> 480] }

\* item.value("tMs", 0): the default 0 is an int, so the call is value<int> and
\* returns the stored 64-bit number converted to int, its lower 32 bits.
value_int(number) == number.lo

\* t_ms is an int64_t initialised from that int: it holds the int's value.
MovementSample(frame_id, item) ==
    [frame_id |-> frame_id, t_ms |-> value_int(item.tMs),
     width |-> item.width, height |-> item.height]

load_movement_trace(items, max_frames) ==
    LET n == IF max_frames > 0 /\ Len(items) > max_frames
             THEN max_frames ELSE Len(items)
    IN  [k \in 1..n |-> MovementSample(k - 1, items[k])]

----------------------------------------------------------------------------
(* tigas_renderer.cpp *)

\* mutant: only the lower limit is applied
clampBelow(v, lo, hi) == IF v < lo THEN lo ELSE v

\* std::clamp (tigas_renderer.cpp:371-372)
clamp(v, lo, hi) == IF v < lo THEN lo ELSE IF hi < v THEN hi ELSE v

render(sample) ==
    LET width  == clamp(sample.width, MinWidth, MaxWidth)
        height == clamp(sample.height, MinHeight, MaxHeight)
    IN  [width |-> width, height |-> height,
         data_len |-> width * height * 3,
         data_of |-> sample.frame_id]

NoFrame == [width |-> 0, height |-> 0, data_len |-> 0, data_of |-> -1]

\* ---- GaussianRenderer::load_points (tigas_renderer.cpp:165-368) ----
\* A PLY file is its header lines up to the end_header line, then its body.  A
\* header line is known by what the parser tests of it: its kind, and the count,
\* type and name it carries.  The body is seen as the reader of its format sees
\* it: as text lines by the ASCII reader, as a number of bytes by the binary one.

HeaderLine(kind, count, type, name) ==
    [kind |-> kind, count |-> count, type |-> type, name |-> name]

NoPoints == <<>>

\* scalar_size_bytes (tigas_renderer.cpp:32-46); 0 for a type it does not know
scalar_size_bytes(type) ==
    CASE type \in { "char", "int8", "uchar", "uint8" } -> 1
      [] type \in { "short", "int16", "ushort", "uint16" } -> 2
      [] type \in { "int", "int32", "uint", "uint32", "float", "float32" } -> 4
      [] type \in { "double", "float64" } -> 8
      [] OTHER -> 0

HeaderStart ==
    [ ascii |-> FALSE, binary_little_endian |-> FALSE, in_vertex_element |-> FALSE,
      unsupported_list_property |-> FALSE, vertex_count |-> 0,
      vertex_properties |-> <<>> ]

\* mutant: a list property of the vertex element is passed over
ParseHeaderLineSkipsList(h, line) ==
    IF line.kind = "format_ascii"
    THEN [h EXCEPT !.ascii = TRUE, !.binary_little_endian = FALSE]
    ELSE IF line.kind = "format_binary_little_endian"
    THEN [h EXCEPT !.ascii = FALSE, !.binary_little_endian = TRUE]
    ELSE IF line.kind = "element_vertex"
    THEN [h EXCEPT !.vertex_count = line.count, !.in_vertex_element = TRUE]
    ELSE IF line.kind = "element_other"
    THEN [h EXCEPT !.in_vertex_element = FALSE]
    ELSE IF h.in_vertex_element /\ line.kind = "property"
    THEN [h EXCEPT !.vertex_properties =
                       Append(@, [type |-> line.type, name |-> line.name])]
    ELSE h

\* one turn of the header loop (tigas_renderer.cpp:179-225), tests in the code's order
ParseHeaderLine(h, line) ==
    IF line.kind = "format_ascii"
    THEN [h EXCEPT !.ascii = TRUE, !.binary_little_endian = FALSE]
    ELSE IF line.kind = "format_binary_little_endian"
    THEN [h EXCEPT !.ascii = FALSE, !.binary_little_endian = TRUE]
    ELSE IF line.kind = "element_vertex"
    THEN [h EXCEPT !.vertex_count = line.count, !.in_vertex_element = TRUE]
    ELSE IF line.kind = "element_other"
    THEN [h EXCEPT !.in_vertex_element = FALSE]
    ELSE IF h.in_vertex_element /\ line.kind = "property_list"
    THEN [h EXCEPT !.unsupported_list_property = TRUE]
    ELSE IF h.in_vertex_element /\ line.kind = "property"
    THEN [h EXCEPT !.vertex_properties =
                       Append(@, [type |-> line.type, name |-> line.name])]
    ELSE h

RECURSIVE ParseHeader(_, _)
ParseHeader(h, lines) ==
    IF lines = <<>> THEN h
    ELSE ParseHeader(ParseHeaderLine(h, Head(lines)), Tail(lines))

\* the ASCII body loop (tigas_renderer.cpp:238-303): turn n reads line n; an empty
\* line is passed over, any other line gives a point (values the line lacks are 0)
RECURSIVE AsciiPoints(_, _, _)
AsciiPoints(lines, vertex_count, n) ==
    IF ~(n <= vertex_count /\ n <= Len(lines)) THEN <<>>
    ELSE (IF lines[n] = "empty" THEN <<>>
          ELSE << [vertex |-> n - 1, whole |-> lines[n] = "record"] >>)
         \o AsciiPoints(lines, vertex_count, n + 1)

\* the reads of one vertex (tigas_renderer.cpp:323-330): the bytes left after the
\* properties from p on were read, or -1 at a type of unknown size or a short read
RECURSIVE ReadVertex(_, _, _)
ReadVertex(props, p, bytes) ==
    IF p > Len(props) THEN bytes
    ELSE IF scalar_size_bytes(props[p].type) = 0 THEN -1
    ELSE IF bytes < scalar_size_bytes(props[p].type) THEN -1
    ELSE ReadVertex(props, p + 1, bytes - scalar_size_bytes(props[p].type))

\* the binary body loop (tigas_renderer.cpp:306-367); failed: it left by the
\* return {} inside the loop
RECURSIVE BinaryPoints(_, _, _, _)
BinaryPoints(props, vertex_count, n, bytes) ==
    IF n > vertex_count THEN [failed |-> FALSE, points |-> <<>>]
    ELSE LET left == ReadVertex(props, 1, bytes)
         IN  IF left < 0 THEN [failed |-> TRUE, points |-> <<>>]
             ELSE LET rest == BinaryPoints(props, vertex_count, n + 1, left)
                  IN  [ failed |-> rest.failed,
                        points |-> << [vertex |-> n - 1, whole |-> TRUE] >>
                                       \o rest.points ]

load_points(path, file) ==
    IF path = "" \/ ~file.exists THEN NoPoints
    ELSE LET h == ParseHeader(HeaderStart, file.header)
         IN  IF h.vertex_count <= 0 \/ h.vertex_properties = <<>>
                   \/ h.unsupported_list_property
             THEN NoPoints
             ELSE IF ~h.ascii /\ ~h.binary_little_endian THEN NoPoints
             ELSE IF h.ascii THEN AsciiPoints(file.body.lines, h.vertex_count, 1)
             ELSE LET read == BinaryPoints(h.vertex_properties, h.vertex_count, 1,
                                           file.body.bytes)
                  IN  IF read.failed THEN NoPoints ELSE read.points

\* ---- GaussianRenderer (tigas_renderer.cpp:150-163, :370-467) ----

NoRenderer ==
    [ points_ |-> NoPoints, prefer_cuda_ |-> FALSE, use_cuda_ |-> FALSE,
      cuda_warning_emitted_ |-> FALSE, state |-> "none" ]

\* the constructor; state "ctor_threw" when it throws (tigas_renderer.cpp:156-158)
GaussianRenderer(ply_path, prefer_cuda, file, available) ==
    LET points == load_points(ply_path, file)
    IN  [ points_ |-> points,
          prefer_cuda_ |-> prefer_cuda,
          use_cuda_ |-> (prefer_cuda /\ available),
          cuda_warning_emitted_ |-> FALSE,
          state |-> IF ply_path # "" /\ points = NoPoints THEN "ctor_threw" ELSE "live" ]

\* cuda_backend::render_points (declared tigas_cuda_renderer.hpp:12): when it
\* succeeds it has filled the pixels of the frame it was handed
render_points(fr) == fr

\* mutant: a failed backend call leaves use_cuda_ set
RenderCallKeepsCuda(r, sample, gpu_ok) ==
    LET fr == render(sample)
        tried == r.points_ # NoPoints /\ r.use_cuda_
        fell == tried /\ ~gpu_ok
    IN  [ frame |-> fr, renderer |-> r,
          entry |-> [ sample |-> sample, use_cuda_before |-> r.use_cuda_,
                      backend_called |-> tried, backend_ok |-> tried /\ gpu_ok,
                      warned |-> FALSE,
                      path |-> IF tried /\ gpu_ok THEN "cuda"
                               ELSE IF r.points_ # NoPoints THEN "splat" ELSE "texture",
                      frame |-> fr ] ]

\* GaussianRenderer::render (tigas_renderer.cpp:370-467).  gpu_ok: what
\* cuda_backend::render_points returns when it is called.  Result: the frame
\* returned, the renderer after the call, and what the call did.
RenderCall(r, sample, gpu_ok) ==
    LET fr == render(sample)
        tried == r.points_ # NoPoints /\ r.use_cuda_
        fell == tried /\ ~gpu_ok
        after == IF fell
                 THEN [r EXCEPT !.use_cuda_ = FALSE, !.cuda_warning_emitted_ = TRUE]
                 ELSE r
    IN  [ frame |-> IF tried /\ gpu_ok THEN render_points(fr) ELSE fr,
          renderer |-> after,
          entry |-> [ sample |-> sample, use_cuda_before |-> r.use_cuda_,
                      backend_called |-> tried, backend_ok |-> tried /\ gpu_ok,
                      warned |-> fell /\ ~r.cuda_warning_emitted_,
                      path |-> IF tried /\ gpu_ok THEN "cuda"
                               ELSE IF r.points_ # NoPoints THEN "splat" ELSE "texture",
                      frame |-> IF tried /\ gpu_ok THEN render_points(fr) ELSE fr ] ]

\* what render_points can return in this call (FALSE where it is not called)
BackendOutcomes(r) ==
    IF r.points_ # NoPoints /\ r.use_cuda_ THEN BOOLEAN ELSE { FALSE }

FrameMetadata(sample) ==
    [frame_id |-> sample.frame_id, timestamp_ms |-> sample.t_ms]

----------------------------------------------------------------------------
(* tigas_encoder.cpp: codec resolution and SEI helpers *)

\* the names with the substring "hevc" (libx265 has none)
NamesWithHevc == { "hevc_nvenc" }

codec_id_for_name(codec_name, lossless) ==
    IF lossless THEN "FFV1"
    ELSE IF codec_name \in NamesWithHevc THEN "HEVC"
    ELSE "H264"

\* AVCodec.id of a registered encoder
CodecIdOf(name) ==
    CASE name = "ffv1" -> "FFV1"
      [] name \in { "libx264", "h264_nvenc" } -> "H264"
      [] name \in { "libx265", "hevc_nvenc" } -> "HEVC"

\* avcodec_find_encoder: the first registered encoder of that id, software first
LibraryOrder == << "ffv1", "libx264", "libx265", "h264_nvenc", "hevc_nvenc" >>

avcodec_find_encoder(id, reg) ==
    LET hits == { k \in 1..Len(LibraryOrder) :
                    LibraryOrder[k] \in reg /\ CodecIdOf(LibraryOrder[k]) = id }
    IN  IF hits = {} THEN "none"
        ELSE LibraryOrder[CHOOSE k \in hits : \A m \in hits : k <= m]

\* tigas_encoder.cpp:172-175; "none" when no encoder is found
ResolveCodec(config, reg) ==
    LET byName == IF config.lossless THEN avcodec_find_encoder("FFV1", reg)
                  ELSE IF config.codec \in reg THEN config.codec ELSE "none"
    IN  IF byName # "none" THEN byName
        ELSE avcodec_find_encoder(codec_id_for_name(config.codec, config.lossless), reg)

IsNvenc(name) == name \in { "h264_nvenc", "hevc_nvenc" }

\* text of the in-band record (tigas_encoder.cpp:32 and :54)
sei_payload(metadata) ==
    << "frame_id=" >> \o to_string(metadata.frame_id)
        \o << ";timestamp_ms=" >> \o to_string(metadata.timestamp_ms)

SeiUuid == "TIGAS-SEI-000001"

NoSei == [uuid |-> "", text |-> <<>>]

build_sei_user_data_payload(metadata) ==
    [uuid |-> SeiUuid, text |-> sei_payload(metadata)]

build_sei_rbsp(metadata) ==
    [uuid |-> SeiUuid, text |-> sei_payload(metadata)]

\* alloc_ok: av_frame_new_side_data returned a buffer of the requested size.
\* The result is the side data now on the AVFrame (NoSei when none).
attach_sei_side_data(metadata, codec_id, alloc_ok) ==
    IF codec_id # "H264" /\ codec_id # "HEVC" THEN NoSei
    ELSE IF ~alloc_ok THEN NoSei
    ELSE build_sei_user_data_payload(metadata)

\* The SEI NAL put in front of the packet payload (NoSei when the packet is
\* left as it is).  alloc_ok: av_new_packet succeeded.
prepend_sei_packet(metadata, codec_id, alloc_ok) ==
    IF codec_id # "H264" /\ codec_id # "HEVC" THEN NoSei
    ELSE IF ~alloc_ok THEN NoSei
    ELSE build_sei_rbsp(metadata)

----------------------------------------------------------------------------
(* tigas_encoder.cpp: the bytes of the SEI NAL and the packet rewrite *)

\* the character codes of the text std::to_string produces
AsciiOf(c) ==
    CASE c = "-" -> 45
      [] c = "0" -> 48 [] c = "1" -> 49 [] c = "2" -> 50 [] c = "3" -> 51
      [] c = "4" -> 52 [] c = "5" -> 53 [] c = "6" -> 54 [] c = "7" -> 55
      [] c = "8" -> 56 [] c = "9" -> 57

Bytes(text) == [n \in 1..Len(text) |-> AsciiOf(text[n])]

\* "frame_id=" and ";timestamp_ms=" (tigas_encoder.cpp:32)
FrameIdKey == << 102, 114, 97, 109, 101, 95, 105, 100, 61 >>

TimestampKey == << 59, 116, 105, 109, 101, 115, 116, 97, 109, 112, 95, 109, 115, 61 >>

\* sei_uuid (tigas_encoder.cpp:33)
SeiUuidBytes == << 84, 73, 71, 65, 83, 45, 83, 69, 73, 45, 48, 48, 48, 48, 48, 49 >>

sei_payload_bytes(metadata) ==
    FrameIdKey \o Bytes(to_string(metadata.frame_id))
        \o TimestampKey \o Bytes(to_string(metadata.timestamp_ms))

\* the payload size bytes (tigas_encoder.cpp:38-44)
RECURSIVE PayloadSizeBytes(_)
PayloadSizeBytes(remaining) ==
    IF remaining >= 255 THEN << 255 >> \o PayloadSizeBytes(remaining - 255)
    ELSE << remaining >>

\* the bytes build_sei_rbsp returns (tigas_encoder.cpp:31-51)
sei_rbsp_bytes(metadata) ==
    << 5 >> \o PayloadSizeBytes(16 + Len(sei_payload_bytes(metadata)))
        \o SeiUuidBytes \o sei_payload_bytes(metadata) \o << 128 >>

build_sei_nal_payload(metadata, codec_id) ==
    (IF codec_id = "HEVC" THEN << 78, 1 >> ELSE << 6 >>) \o sei_rbsp_bytes(metadata)

\* the four bytes of a uint32, most significant first (tigas_encoder.cpp:82-85)
BigEndian32(n) ==
    << (n \div 16777216) % 256, (n \div 65536) % 256, (n \div 256) % 256, n % 256 >>

build_sei_nal_with_length(metadata, codec_id) ==
    BigEndian32(Len(build_sei_nal_payload(metadata, codec_id)))
        \o build_sei_nal_payload(metadata, codec_id)

build_sei_nal_annexb(metadata, codec_id) ==
    << 0, 0, 0, 1 >> \o build_sei_nal_payload(metadata, codec_id)

\* tigas_encoder.cpp:99-106; d is packet->data, Len(d) is packet->size
packet_is_annexb(d) ==
    IF Len(d) < 4 THEN FALSE
    ELSE \/ (d[1] = 0 /\ d[2] = 0 /\ d[3] = 1)
         \/ (Len(d) >= 4 /\ d[1] = 0 /\ d[2] = 0 /\ d[3] = 0 /\ d[4] = 1)

\* prepend_sei_packet (tigas_encoder.cpp:108-137) on the whole AVPacket: the
\* packet as the call leaves it.  alloc_ok: av_new_packet succeeded.
PrependedPacket(pkt, metadata, codec_id, alloc_ok) ==
    IF codec_id # "H264" /\ codec_id # "HEVC" THEN pkt
    ELSE LET sei == IF packet_is_annexb(pkt.data)
                    THEN build_sei_nal_annexb(metadata, codec_id)
                    ELSE build_sei_nal_with_length(metadata, codec_id)
         IN  IF ~alloc_ok THEN pkt
             ELSE [ data |-> sei \o pkt.data,
                    pts |-> pkt.pts, dts |-> pkt.dts, duration |-> pkt.duration,
                    pos |-> pkt.pos, flags |-> pkt.flags,
                    stream_index |-> pkt.stream_index ]

----------------------------------------------------------------------------
(* tigas_encoder.cpp: VideoEncoder *)

Resources == { "format_context", "codec_context", "io", "frame", "sws_context" }

\* init() throws at one of these places; "ok" is no failure
InitFailPoints ==
    { "alloc_output_context", "find_encoder", "new_stream", "alloc_context",
      "open_codec", "copy_parameters", "avio_open", "write_header",
      "frame_alloc", "frame_get_buffer", "sws_getContext", "ok" }

InitOrder ==
    << "alloc_output_context", "find_encoder", "new_stream", "alloc_context",
       "open_codec", "copy_parameters", "avio_open", "write_header",
       "frame_alloc", "frame_get_buffer", "sws_getContext", "ok" >>

StepOf(p) == CHOOSE k \in 1..Len(InitOrder) : InitOrder[k] = p

\* init got past step q without throwing, when it throws at failAt ("ok": never)
Passed(failAt, q) == StepOf(q) < StepOf(failAt)

\* the places where init() can throw for this configuration
CanFailAt(config, reg, failAt) ==
    /\ (ResolveCodec(config, reg) = "none")
           => failAt \in { "alloc_output_context", "find_encoder" }
    /\ (ResolveCodec(config, reg) # "none") => failAt # "find_encoder"
    /\ failAt = "avio_open" => ~config.live_dash      \* the dash muxer is AVFMT_NOFILE

\* VideoEncoder::VideoEncoder + init (tigas_encoder.cpp:154-294)
VideoEncoder(output_path, config, width, height, reg, failAt) ==
    LET name  == ResolveCodec(config, reg)
        nvenc == IsNvenc(name)
        got(r) == CASE r = "format_context" -> Passed(failAt, "alloc_output_context")
                    [] r = "codec_context"  -> Passed(failAt, "alloc_context")
                    [] r = "io"             -> Passed(failAt, "avio_open") /\ ~config.live_dash
                    [] r = "frame"          -> Passed(failAt, "frame_alloc")
                    [] r = "sws_context"    -> Passed(failAt, "sws_getContext")
    IN  [ output_path     |-> output_path,
          lossless        |-> config.lossless,
          live_dash       |-> config.live_dash,
          crf             |-> config.crf,
          codec_name      |-> name,
          codec_id        |-> IF name = "none" THEN "none" ELSE CodecIdOf(name),
          udu_sei         |-> ~config.lossless /\ ~nvenc /\ Passed(failAt, "alloc_context"),
          width           |-> width,
          height          |-> height,
          format_context_ |-> got("format_context"),
          codec_context_  |-> got("codec_context"),
          frame_          |-> got("frame"),
          sws_context_    |-> got("sws_context"),
          pb              |-> got("io"),
          next_pts_       |-> 0,
          acquired        |-> { r \in Resources : got(r) },
          released        |-> [r \in Resources |-> 0],
          calls           |-> 0,
          submitted       |-> <<>>,
          pending         |-> <<>>,
          muxed           |-> <<>>,
          eos             |-> 0,
          trailers        |-> 0,
          flush_calls     |-> 0,
          state           |-> IF failAt = "ok" THEN "live" ELSE "ctor_threw" ]

----------------------------------------------------------------------------
(* VideoEncoder::encode_frame (tigas_encoder.cpp:322-372) *)

\* mutant: the PTS counter is read but not advanced
NextPtsStuck(pts) == pts

\* next_pts_++ (tigas_encoder.cpp:336)
NextPts(pts) == pts + 1

EncodeOutcomes == { "ok", "not_writable", "send_failed", "receive_failed", "write_failed" }

\* The codec writes the unregistered SEI of a frame's side data into the packet
\* only when udu_sei was set on it (tigas_encoder.cpp:209) and the frame
\* carried the side data (tigas_encoder.cpp:339).
CodecSei(enc, fr) == IF enc.udu_sei THEN fr.side_data ELSE NoSei

\* one packet leaving avcodec_receive_packet inside encode_frame
EncodePacket(enc, fr, side_data_attached, metadata, pkt_ok) ==
    [ pts |-> fr.pts, data_of |-> fr.data_of,
      side_data |-> fr.side_data,
      codec_sei |-> CodecSei(enc, fr),
      prepended_sei |-> IF ~side_data_attached
                        THEN prepend_sei_packet(metadata, enc.codec_id, pkt_ok)
                        ELSE NoSei,
      via |-> "encode_frame" ]

\* k packets are received and written; then the loop ends on EAGAIN ("ok"),
\* on a receive error, or on a write error of packet k+1.
\* Result: the encoder after the call and whether the call threw.
encode_frame(enc, rgb, metadata, outcome, sd_ok, pkt_ok, k) ==
    LET called == [enc EXCEPT !.calls = @ + 1]
        side_data == attach_sei_side_data(metadata, enc.codec_id, sd_ok)
        side_data_attached == side_data # NoSei
        fr == [ pts |-> enc.next_pts_, data_of |-> rgb.data_of,
                side_data |-> side_data ]
        stamped == [called EXCEPT !.next_pts_ = NextPts(@)]
        sent == [stamped EXCEPT !.submitted = Append(@, [pts |-> fr.pts, call |-> enc.calls]),
                                !.pending = Append(@, fr)]
        taken == IF outcome = "write_failed" THEN k + 1 ELSE k
        written == [n \in 1..k |->
                       EncodePacket(sent, sent.pending[n], side_data_attached, metadata, pkt_ok)]
        drained == [sent EXCEPT !.pending = SubSeq(@, taken + 1, Len(@)),
                                !.muxed = @ \o written]
    IN  CASE outcome = "not_writable" -> [enc |-> called, thrown |-> TRUE]
          [] outcome = "send_failed"  -> [enc |-> stamped, thrown |-> TRUE]
          [] OTHER -> [enc |-> drained, thrown |-> outcome # "ok"]

\* Frames the codec holds back before avcodec_receive_packet yields a packet.
\* FFV1 and the software encoders under tune=zerolatency, bf=0 (tigas_encoder.cpp:211-212)
\* yield each frame's packet at once; NVENC keeps its default output delay.
CodecDelay(enc) == IF IsNvenc(enc.codec_name) THEN NvencDelay ELSE 0

\* packets the codec has ready once the frame was sent
Ready(enc) ==
    IF Len(enc.pending) + 1 > CodecDelay(enc)
    THEN Len(enc.pending) + 1 - CodecDelay(enc) ELSE 0

\* the k the receive loop can yield after the frame was sent
CanDrain(enc, outcome, k) ==
    CASE outcome = "ok"             -> k = Ready(enc)
      [] outcome = "receive_failed" -> k <= Ready(enc)
      [] outcome = "write_failed"   -> k + 1 <= Ready(enc)
      [] OTHER -> k = 0

----------------------------------------------------------------------------
(* VideoEncoder::flush (tigas_encoder.cpp:374-408) *)

FlushPacket(enc, fr) ==
    [ pts |-> fr.pts, data_of |-> fr.data_of,
      side_data |-> fr.side_data,
      codec_sei |-> CodecSei(enc, fr),
      prepended_sei |-> NoSei,
      via |-> "flush" ]

\* mutant: flush() leaves the handles set
FlushedHandleKept(h) == h

\* codec_context_ = nullptr; format_context_ = nullptr (tigas_encoder.cpp:406-407)
FlushedHandle(h) == FALSE

\* k packets are received (the loop then ends on EOF, or on a receive error when
\* k is short of what the codec holds); packet number lost, if any, is the one
\* whose av_interleaved_write_frame failed.  No return code is looked at.
flush(enc, k, lost) ==
    LET called == [enc EXCEPT !.flush_calls = @ + 1]
        kept == { n \in 1..k : n # lost }
        RECURSIVE Packets(_)
        Packets(n) == IF n > k THEN <<>>
                      ELSE (IF n \in kept THEN << FlushPacket(enc, enc.pending[n]) >>
                            ELSE <<>>) \o Packets(n + 1)
    IN  IF ~enc.codec_context_ \/ ~enc.format_context_ THEN called
        ELSE [called EXCEPT !.eos = @ + 1,
                            !.pending = SubSeq(@, k + 1, Len(@)),
                            !.muxed = @ \o Packets(1),
                            !.trailers = @ + 1,
                            !.codec_context_ = FlushedHandle(@),
                            !.format_context_ = FlushedHandle(@)]

\* What the codec library can do inside one flush(): k and lost as above;
\* eos_ok: avcodec_send_frame(nullptr) succeeded (when it fails the codec is not
\* draining and the receive loop ends at once on EAGAIN); trailer_ok:
\* av_write_trailer succeeded.
CanFlush(enc, k, lost, eos_ok, trailer_ok) ==
    IF ~enc.codec_context_ \/ ~enc.format_context_
    THEN k = 0 /\ lost = 0 /\ eos_ok /\ trailer_ok
    ELSE /\ k \in 0..Len(enc.pending)
         /\ lost \in 0..k
         /\ (~eos_ok => k = 0)

\* <<k, lost, eos_ok, trailer_ok>>
FlushInputs(enc) ==
    { inp \in (0..Len(enc.pending)) \X (0..Len(enc.pending)) \X BOOLEAN \X BOOLEAN :
        CanFlush(enc, inp[1], inp[2], inp[3], inp[4]) }

\* the steps of this flush() that failed: the end-of-stream submit, a receive
\* (the loop ended short of what the draining codec holds), a write, the trailer
FlushFaults(enc, k, lost, eos_ok, trailer_ok) ==
    IF ~enc.codec_context_ \/ ~enc.format_context_ THEN 0
    ELSE (IF ~eos_ok THEN 1 ELSE 0)
         + (IF eos_ok /\ k < Len(enc.pending) THEN 1 ELSE 0)
         + (IF lost > 0 THEN 1 ELSE 0)
         + (IF ~trailer_ok THEN 1 ELSE 0)

----------------------------------------------------------------------------
(* VideoEncoder::~VideoEncoder (tigas_encoder.cpp:296-320) *)

Release(enc, rs) ==
    [enc EXCEPT !.released = [r \in Resources |-> IF r \in rs THEN @[r] + 1 ELSE @[r]]]

Destroy(enc, k, lost) ==
    LET f == flush(enc, k, lost)
        rs == (IF f.frame_ THEN { "frame" } ELSE {})
              \cup (IF f.codec_context_ THEN { "codec_context" } ELSE {})
              \cup (IF f.format_context_ THEN { "format_context" } ELSE {})
              \cup (IF f.format_context_ /\ f.pb THEN { "io" } ELSE {})
              \cup (IF f.sws_context_ THEN { "sws_context" } ELSE {})
    IN  [Release(f, rs) EXCEPT !.state = "destroyed"]

----------------------------------------------------------------------------
(* main.cpp: parse_args *)

\* the token of --crf-ladder that is empty ("26,,28"), skipped at main.cpp:37-39
EmptyToken == -1

\* parse_crf_ladder (main.cpp:32-43) on the comma-separated tokens
RECURSIVE parse_crf_ladder(_)
parse_crf_ladder(tokens) ==
    IF tokens = <<>> THEN <<>>
    ELSE (IF Head(tokens) = EmptyToken THEN <<>> ELSE << Head(tokens) >>)
         \o parse_crf_ladder(Tail(tokens))

\* parse_args (main.cpp:45-91).  cli: the options given; flags are the options
\* without a value.
parse_args(cli) ==
    [ codec       |-> cli.codec,
      crf         |-> cli.crf,
      crf_ladder  |-> parse_crf_ladder(cli.crf_ladder),
      live_dash   |-> "--live-dash" \in cli.flags,
      realtime    |-> ("--live-dash" \in cli.flags \/ "--realtime" \in cli.flags),
      prefer_cuda |-> "--disable-cuda" \notin cli.flags,
      ply_path    |-> cli.ply,
      max_frames  |-> DefaultMaxFrames ]

----------------------------------------------------------------------------
(* main.cpp: the encoders main() constructs, in construction order *)

EncodeConfig(codec, crf, lossless, live_dash) ==
    [codec |-> codec, crf |-> crf, lossless |-> lossless, live_dash |-> live_dash]

LadderPath(idx) == << "test_stream_lossy_p" >> \o to_string(idx) \o << ".mp4" >>

\* mutant: the ladder loop runs in live-DASH mode too
RECURSIVE LadderPlanInLive(_, _)
LadderPlanInLive(a, idx) ==
    IF ~(idx < Len(a.crf_ladder)) THEN <<>>
    ELSE (IF a.crf_ladder[idx + 1] = a.crf THEN <<>>
          ELSE << [role |-> "ladder", output_path |-> LadderPath(idx),
                   config |-> EncodeConfig(a.codec, a.crf_ladder[idx + 1], FALSE, FALSE)] >>)
         \o LadderPlanInLive(a, idx + 1)

\* mutant: the entry equal to the base CRF is not skipped
RECURSIVE LadderPlanKeepsBase(_, _)
LadderPlanKeepsBase(a, idx) ==
    IF ~(idx < Len(a.crf_ladder) /\ ~a.live_dash) THEN <<>>
    ELSE << [role |-> "ladder", output_path |-> LadderPath(idx),
             config |-> EncodeConfig(a.codec, a.crf_ladder[idx + 1], FALSE, FALSE)] >>
         \o LadderPlanKeepsBase(a, idx + 1)

\* main.cpp:127-136, idx counted from 0
RECURSIVE LadderPlan(_, _)
LadderPlan(a, idx) ==
    IF ~(idx < Len(a.crf_ladder) /\ ~a.live_dash) THEN <<>>
    ELSE (IF a.crf_ladder[idx + 1] = a.crf THEN <<>>
          ELSE << [role |-> "ladder", output_path |-> LadderPath(idx),
                   config |-> EncodeConfig(a.codec, a.crf_ladder[idx + 1], FALSE, FALSE)] >>)
         \o LadderPlan(a, idx + 1)

\* main.cpp:109-136
EncoderPlan(a) ==
    (IF ~a.live_dash
     THEN << [role |-> "lossless", output_path |-> << "ground_truth_lossless.mkv" >>,
              config |-> EncodeConfig("ffv1", 0, TRUE, FALSE)] >>
     ELSE <<>>)
    \o << [role |-> "lossy",
           output_path |-> IF a.live_dash THEN << "stream.mpd" >>
                           ELSE << "test_stream_lossy.mp4" >>,
           config |-> EncodeConfig(a.codec, a.crf, FALSE, a.live_dash)] >>
    \o LadderPlan(a, 0)

Role(j) == EncoderPlan(args)[j].role

MetadataPath == << "frame_metadata.csv" >>

----------------------------------------------------------------------------
(* MetadataWriter::append (tigas_encoder.cpp:420-422) *)

\* mutant: the two fields are written the other way round
appendSwapped(stream, metadata) ==
    stream \o to_string(metadata.timestamp_ms) \o << "," >>
           \o to_string(metadata.frame_id) \o << "\n" >>

\* mutant: a sample with a negative timestamp gets no record
appendSkipsNegative(stream, metadata) ==
    IF metadata.timestamp_ms < 0 THEN stream
    ELSE stream \o to_string(metadata.frame_id) \o << "," >>
                \o to_string(metadata.timestamp_ms) \o << "\n" >>

append(stream, metadata) ==
    stream \o to_string(metadata.frame_id) \o << "," >>
           \o to_string(metadata.timestamp_ms) \o << "\n" >>

----------------------------------------------------------------------------
(* main.cpp: main() *)

\* failed: the call threw (encode_frame), or a step inside it failed (flush);
\* explicit: the call is made by main(), not by a destructor
EncodeCall(j, rgb, thrown) ==
    [op |-> "encode_frame", enc |-> j, data_of |-> rgb.data_of,
     width |-> rgb.width, height |-> rgb.height, explicit |-> TRUE, failed |-> thrown]

FlushCall(j, explicit, failed) ==
    [op |-> "flush", enc |-> j, data_of |-> -1, width |-> 0, height |-> 0,
     explicit |-> explicit, failed |-> failed]

\* no file at the path
MissingFile == [exists |-> FALSE, header |-> <<>>, body |-> [lines |-> <<>>, bytes |-> 0]]

NoPacket == [data |-> <<>>, pts |-> 0, dts |-> 0, duration |-> 0, pos |-> 0,
             flags |-> 0, stream_index |-> 0]

NoPrepend ==
    [ packet |-> NoPacket, metadata |-> [frame_id |-> 0, timestamp_ms |-> 0],
      codec_id |-> "none", state |-> "none" ]

\* the variables of main() before its first statement
MainStart ==
    /\ movement = <<>>
    /\ pc = "load"
    /\ first_frame = NoFrame
    /\ frame = NoFrame
    /\ i = 0
    /\ e = 0
    /\ encoders = <<>>
    /\ failed_ctor = <<>>
    /\ metadata_writer = "none"
    /\ sidecar = <<>>
    /\ files = {}
    /\ render_log = <<>>
    /\ call_log = <<>>
    /\ error = FALSE
    /\ exit_code = -1
    /\ renderer = NoRenderer
    /\ backend_log = <<>>
    /\ now = 0
    /\ start_clock = 0
    /\ pace_log = <<>>
    /\ packet = NoPacket
    /\ prepend_call = NoPrepend

\* The build of src/ links tigas_cuda_stub.cpp, whose available() is false.
Init ==
    /\ \E setup \in CodecSetups, ladder \in Ladders,
          flags \in SUBSET { "--live-dash", "--realtime" }, ply \in { "", "scene.ply" } :
         /\ args = parse_args([codec |-> setup[1], crf |-> DefaultCrf,
                               crf_ladder |-> ladder, flags |-> flags, ply |-> ply])
         /\ registered = setup[2]
    /\ trace \in SeqsUpTo(TraceItems, MaxFrames)
    /\ ply_file = MissingFile
    /\ cuda_available = FALSE
    /\ faults = 0
    /\ MainStart

\* main.cpp:100-103
LoadTrace ==
    /\ pc = "load"
    /\ movement' = load_movement_trace(trace, args.max_frames)
    /\ IF movement' = <<>>
       THEN error' = TRUE /\ pc' = "unwind"
       ELSE error' = error /\ pc' = "render_first"
    /\ UNCHANGED <<args, trace, registered, first_frame, frame, i, e, encoders,
                   failed_ctor, metadata_writer, sidecar, files, render_log,
                   call_log, exit_code, faults>>
    /\ UNCHANGED <<env_vars, renderer_vars, clock_vars, sei_vars>>

\* main.cpp:105-106: the renderer is constructed and renders the first sample
RenderFirst ==
    /\ pc = "render_first"
    /\ LET r == GaussianRenderer(args.ply_path, args.prefer_cuda, ply_file, cuda_available)
       IN  IF r.state = "ctor_threw"
           THEN /\ renderer' = r
                /\ error' = TRUE
                /\ pc' = "unwind"
                /\ UNCHANGED <<first_frame, render_log, backend_log>>
           ELSE \E gpu_ok \in BackendOutcomes(r) :
                  LET c == RenderCall(r, movement[1], gpu_ok)
                  IN  /\ renderer' = c.renderer
                      /\ backend_log' = Append(backend_log, c.entry)
                      /\ first_frame' = c.frame
                      /\ render_log' = Append(render_log, movement[1].frame_id)
                      /\ pc' = "construct"
                      /\ UNCHANGED error
    /\ UNCHANGED <<args, trace, registered, movement, frame, i, e, encoders,
                   failed_ctor, metadata_writer, sidecar, files, call_log,
                   exit_code, faults>>
    /\ UNCHANGED <<env_vars, clock_vars, sei_vars>>

\* main.cpp:120-136: the next encoder of the plan is constructed
ConstructEncoder ==
    /\ pc = "construct"
    /\ Len(encoders) < Len(EncoderPlan(args))
    /\ LET p == EncoderPlan(args)[Len(encoders) + 1]
       IN  \E failAt \in InitFailPoints :
             /\ CanFailAt(p.config, registered, failAt)
             /\ faults' = faults + (IF failAt \in { "ok", "find_encoder" } THEN 0 ELSE 1)
             /\ faults' <= MaxFaults
             /\ LET enc == VideoEncoder(p.output_path, p.config,
                                        first_frame.width, first_frame.height,
                                        registered, failAt)
                IN  /\ files' = IF enc.pb \/ (enc.live_dash /\ Passed(failAt, "write_header"))
                                THEN files \cup { p.output_path } ELSE files
                    /\ IF failAt = "ok"
                       THEN /\ encoders' = Append(encoders, enc)
                            /\ UNCHANGED <<failed_ctor, error, pc>>
                       ELSE /\ failed_ctor' = Append(failed_ctor, enc)
                            /\ error' = TRUE
                            /\ pc' = "unwind"
                            /\ UNCHANGED encoders
    /\ UNCHANGED <<args, trace, registered, movement, first_frame, frame, i, e,
                   metadata_writer, sidecar, render_log, call_log, exit_code>>
    /\ UNCHANGED <<env_vars, renderer_vars, clock_vars, sei_vars>>

\* main.cpp:137-138
OpenMetadata ==
    /\ pc = "construct"
    /\ Len(encoders) = Len(EncoderPlan(args))
    /\ \E opened \in BOOLEAN :
         IF opened
         THEN /\ metadata_writer' = "open"
              /\ files' = files \cup { MetadataPath }
              /\ start_clock' = now
              /\ i' = 1
              /\ pc' = "render"
              /\ UNCHANGED error
         ELSE /\ error' = TRUE
              /\ pc' = "unwind"
              /\ UNCHANGED <<metadata_writer, files, i, start_clock>>
    /\ UNCHANGED <<args, trace, registered, movement, first_frame, frame, e, encoders,
                   failed_ctor, sidecar, render_log, call_log, exit_code, faults>>
    /\ UNCHANGED <<env_vars, renderer_vars, now, pace_log, sei_vars>>

LoopStart(sample, t) == [op |-> "start", sample |-> sample.frame_id, at |-> t]

\* mutant: the first iteration reuses first_frame instead of rendering again
RenderReusesFirst ==
    /\ pc = "render"
    /\ IF i = 1
       THEN /\ frame' = first_frame
            /\ UNCHANGED <<render_log, renderer, backend_log>>
       ELSE \E gpu_ok \in BackendOutcomes(renderer) :
              LET c == RenderCall(renderer, movement[i], gpu_ok)
              IN  /\ frame' = c.frame
                  /\ renderer' = c.renderer
                  /\ backend_log' = Append(backend_log, c.entry)
                  /\ render_log' = Append(render_log, movement[i].frame_id)
    /\ pace_log' = Append(pace_log, LoopStart(movement[i], now))
    /\ e' = 1
    /\ pc' = "encode"
    /\ UNCHANGED <<args, trace, registered, movement, first_frame, i, encoders,
                   failed_ctor, metadata_writer, sidecar, files, call_log, error,
                   exit_code, faults>>
    /\ UNCHANGED <<env_vars, now, start_clock, sei_vars>>

\* main.cpp:140-142: the iteration of a sample starts
Render ==
    /\ pc = "render"
    /\ \E gpu_ok \in BackendOutcomes(renderer) :
         LET c == RenderCall(renderer, movement[i], gpu_ok)
         IN  /\ frame' = c.frame
             /\ renderer' = c.renderer
             /\ backend_log' = Append(backend_log, c.entry)
    /\ render_log' = Append(render_log, movement[i].frame_id)
    /\ pace_log' = Append(pace_log, LoopStart(movement[i], now))
    /\ e' = 1
    /\ pc' = "encode"
    /\ UNCHANGED <<args, trace, registered, movement, first_frame, i, encoders,
                   failed_ctor, metadata_writer, sidecar, files, call_log, error,
                   exit_code, faults>>
    /\ UNCHANGED <<env_vars, now, start_clock, sei_vars>>

\* a non-fatal allocation failure inside encode_frame is possible only where
\* the allocation is attempted
AllocInputs(enc, outcome, sd_ok, pkt_ok, k) ==
    LET h26x == enc.codec_id \in { "H264", "HEVC" }
    IN  /\ ((~h26x \/ outcome = "not_writable") => sd_ok)
        /\ ((~h26x \/ sd_ok \/ k = 0) => pkt_ok)

\* mutant: the fan-out stops one encoder short of the end of the list
AfterEncodeSkipsLast(thrown) ==
    IF thrown
    THEN error' = TRUE /\ pc' = "unwind" /\ e' = e
    ELSE /\ error' = error
         /\ IF e < Len(encoders) - 1
            THEN e' = e + 1 /\ pc' = pc
            ELSE e' = e /\ pc' = "append"

\* mutant: an encode_frame error is noted and the fan-out goes on
AfterEncodeContinues(thrown) ==
    /\ error' = (error \/ thrown)
    /\ IF e < Len(encoders)
       THEN e' = e + 1 /\ pc' = pc
       ELSE e' = e /\ pc' = "append"

\* main.cpp:144-150: what the loop does once encode_frame returned or threw
AfterEncode(thrown) ==
    IF thrown
    THEN error' = TRUE /\ pc' = "unwind" /\ e' = e
    ELSE /\ error' = error
         /\ IF e < Len(encoders)
            THEN e' = e + 1 /\ pc' = pc
            ELSE e' = e /\ pc' = "append"

\* main.cpp:144-150: encode_frame on the encoder the fan-out is at
EncodeFrame ==
    /\ pc = "encode"
    /\ \E outcome \in EncodeOutcomes, sd_ok \in BOOLEAN, pkt_ok \in BOOLEAN,
          k \in 0..(Len(encoders[e].pending) + 1) :
         /\ CanDrain(encoders[e], outcome, k)
         /\ AllocInputs(encoders[e], outcome, sd_ok, pkt_ok, k)
         /\ faults' = faults + (IF outcome = "ok" THEN 0 ELSE 1)
                              + (IF sd_ok THEN 0 ELSE 1) + (IF pkt_ok THEN 0 ELSE 1)
         /\ faults' <= MaxFaults
         /\ LET r == encode_frame(encoders[e], frame, FrameMetadata(movement[i]),
                                  outcome, sd_ok, pkt_ok, k)
            IN  /\ encoders' = [encoders EXCEPT ![e] = r.enc]
                /\ call_log' = Append(call_log, EncodeCall(e, frame, r.thrown))
                /\ AfterEncode(r.thrown)
    /\ UNCHANGED <<args, trace, registered, movement, first_frame, frame, i,
                   failed_ctor, metadata_writer, sidecar, files, render_log, exit_code>>
    /\ UNCHANGED <<env_vars, renderer_vars, clock_vars, sei_vars>>

\* mutant: the sleep is not gated by the realtime flag
PaceIgnoresRealtime(realtime, start, t, t_ms, wake) ==
    LET target == start + t_ms
    IN  IF target > t
        THEN [slept |-> TRUE, target |-> target, at |-> t, woke |-> wake]
        ELSE [slept |-> FALSE, target |-> target, at |-> t, woke |-> t]

\* main.cpp:153-159.  t: what steady_clock::now() returns at :155; wake: when
\* sleep_until returns, if it is called.
Pace(realtime, start, t, t_ms, wake) ==
    LET target == start + t_ms
    IN  IF realtime /\ target > t
        THEN [slept |-> TRUE, target |-> target, at |-> t, woke |-> wake]
        ELSE [slept |-> FALSE, target |-> target, at |-> t, woke |-> t]

\* sleep_until(target) returns at the target or up to MaxOversleep later
WakeTimes(target) == target..(target + MaxOversleep)

\* main.cpp:151-160: the sidecar record, the pacing sleep, then the next sample
\* or the end of the loop
AppendMetadata ==
    /\ pc = "append"
    /\ sidecar' = append(sidecar, FrameMetadata(movement[i]))
    /\ \E wake \in WakeTimes(start_clock + movement[i].t_ms) :
         LET p == Pace(args.realtime, start_clock, now, movement[i].t_ms, wake)
         IN  /\ (~p.slept => wake = p.target)
             /\ now' = p.woke
             /\ pace_log' = Append(pace_log,
                                   [op |-> "pace", sample |-> movement[i].frame_id] @@ p)
    /\ IF i < Len(movement)
       THEN i' = i + 1 /\ pc' = "render" /\ e' = e
       ELSE i' = i /\ pc' = "flush" /\ e' = 1
    /\ UNCHANGED <<args, trace, registered, movement, first_frame, frame, encoders,
                   failed_ctor, metadata_writer, files, render_log, call_log, error,
                   exit_code, faults>>
    /\ UNCHANGED <<env_vars, renderer_vars, start_clock, sei_vars>>

\* main.cpp:162-168: explicit flush() of the encoder the flush loop is at
FlushEncoder ==
    /\ pc = "flush"
    /\ \E inp \in FlushInputs(encoders[e]) :
         LET failed == FlushFaults(encoders[e], inp[1], inp[2], inp[3], inp[4])
         IN  /\ faults' = faults + failed
             /\ faults' <= MaxFaults
             /\ encoders' = [encoders EXCEPT ![e] = flush(@, inp[1], inp[2])]
             /\ call_log' = Append(call_log, FlushCall(e, TRUE, failed > 0))
    /\ IF e < Len(encoders)
       THEN e' = e + 1 /\ pc' = pc
       ELSE e' = e /\ pc' = "unwind"
    /\ UNCHANGED <<args, trace, registered, movement, first_frame, frame, i,
                   failed_ctor, metadata_writer, sidecar, files, render_log,
                   error, exit_code>>
    /\ UNCHANGED <<env_vars, renderer_vars, clock_vars, sei_vars>>

\* Order in which leaving the try block destroys the encoders: ladder_encoders
\* (main.cpp:125), then lossy_encoder (:124), then lossless_encoder (:120).
DestructionOrder(n) ==
    LET ladder == { j \in 1..n : Role(j) = "ladder" }
        lossy  == { j \in 1..n : Role(j) = "lossy" }
        nl     == Cardinality(ladder)
    IN  [m \in 1..n |-> IF m <= nl THEN (n - nl) + m
                        ELSE IF m = nl + 1 /\ lossy # {} THEN CHOOSE j \in lossy : TRUE
                        ELSE 1]

\* one <<k, lost, eos_ok, trailer_ok>> for each of the first n encoders
RECURSIVE FlushInputsAll(_, _)
FlushInputsAll(encs, n) ==
    IF n = 0 THEN { <<>> }
    ELSE { Append(s, kl) : s \in FlushInputsAll(encs, n - 1), kl \in FlushInputs(encs[n]) }

RECURSIVE FlushFaultsAll(_, _, _)
FlushFaultsAll(encs, inp, n) ==
    IF n = 0 THEN 0
    ELSE FlushFaults(encs[n], inp[n][1], inp[n][2], inp[n][3], inp[n][4])
         + FlushFaultsAll(encs, inp, n - 1)

\* main.cpp:179-183: return 0, or the exception reaches the catch; either way the
\* locals of the try block are destroyed first (metadata_writer, then the encoders).
Unwind ==
    /\ pc = "unwind"
    /\ LET n == Len(encoders)
       IN  \E inp \in FlushInputsAll(encoders, n) :
             /\ faults' = faults + FlushFaultsAll(encoders, inp, n)
             /\ faults' <= MaxFaults
             /\ encoders' = [j \in 1..n |-> Destroy(encoders[j], inp[j][1], inp[j][2])]
             /\ call_log' = call_log
                    \o (IF n = 0 THEN <<>>
                        ELSE [m \in 1..n |->
                                LET j == DestructionOrder(n)[m]
                                IN  FlushCall(j, FALSE,
                                              FlushFaults(encoders[j], inp[j][1], inp[j][2],
                                                          inp[j][3], inp[j][4]) > 0)])
    /\ metadata_writer' = IF metadata_writer = "open" THEN "closed" ELSE metadata_writer
    /\ exit_code' = IF error THEN 1 ELSE 0
    /\ pc' = "done"
    /\ UNCHANGED <<args, trace, registered, movement, first_frame, frame, i, e,
                   failed_ctor, sidecar, files, render_log, error>>
    /\ UNCHANGED <<env_vars, renderer_vars, clock_vars, sei_vars>>

Next ==
    \/ LoadTrace
    \/ RenderFirst
    \/ ConstructEncoder
    \/ OpenMetadata
    \/ Render
    \/ EncodeFrame
    \/ AppendMetadata
    \/ FlushEncoder
    \/ Unwind

Spec == Init /\ [][Next]_vars

----------------------------------------------------------------------------
(* main() up to the start of its loop, over the CRF ladders and base CRFs *)

LadderTokens == { EmptyToken, 26, 28, 30 }

BaseCrfs == { 23, 26 }

InitLadder ==
    /\ \E tokens \in SeqsUpTo(LadderTokens, MaxLadder), crf \in BaseCrfs,
          flags \in SUBSET { "--live-dash" } :
         args = parse_args([codec |-> "libx264", crf |-> crf, crf_ladder |-> tokens,
                            flags |-> flags, ply |-> ""])
    /\ registered = AllEncoders
    /\ trace = << [tMs |-> int64_t(0), width |-> DefaultWidth, height |-> DefaultHeight] >>
    /\ ply_file = MissingFile
    /\ cuda_available = FALSE
    /\ faults = 0
    /\ MainStart

NextLadder ==
    \/ LoadTrace
    \/ RenderFirst
    \/ ConstructEncoder
    \/ OpenMetadata

SpecLadder == InitLadder /\ [][NextLadder]_vars

----------------------------------------------------------------------------
(* One GaussianRenderer and the render calls made on it, over the samples, the
   builds with and without a working CUDA backend, and scenes with and without
   points *)

\* a scene of one vertex
OnePointFile ==
    [ exists |-> TRUE,
      header |-> << HeaderLine("format_ascii", 0, "", ""),
                    HeaderLine("element_vertex", 1, "", ""),
                    HeaderLine("property", 0, "float", "x") >>,
      body |-> [lines |-> << "record" >>, bytes |-> 0] ]

SampleSizes ==
    { << 0, 0 >>, << -1, 720 >>, << 64, 63 >>, << 1280, 721 >>, << 1281, 64 >>,
      << DefaultWidth, DefaultHeight >> }

RenderSamples ==
    { MovementSample(0, [tMs |-> int64_t(0), width |-> wh[1], height |-> wh[2]]) : wh \in SampleSizes }

InitRenderer ==
    /\ \E flags \in SUBSET { "--disable-cuda" }, ply \in { "", "scene.ply" } :
         args = parse_args([codec |-> "libx264", crf |-> DefaultCrf, crf_ladder |-> <<>>,
                            flags |-> flags, ply |-> ply])
    /\ ply_file \in { MissingFile, OnePointFile }
    /\ cuda_available \in BOOLEAN
    /\ registered = {}
    /\ trace = <<>>
    /\ faults = 0
    /\ MainStart

\* tigas_renderer.cpp:150-159
ConstructRenderer ==
    /\ renderer.state = "none"
    /\ renderer' = GaussianRenderer(args.ply_path, args.prefer_cuda, ply_file, cuda_available)
    /\ UNCHANGED <<main_vars, env_vars, backend_log, clock_vars, sei_vars>>

\* tigas_renderer.cpp:370-467: one render call
RenderSample ==
    /\ renderer.state = "live"
    /\ Len(backend_log) < MaxRenders
    /\ \E sample \in RenderSamples, gpu_ok \in BackendOutcomes(renderer) :
         LET c == RenderCall(renderer, sample, gpu_ok)
         IN  /\ renderer' = c.renderer
             /\ backend_log' = Append(backend_log, c.entry)
    /\ UNCHANGED <<main_vars, env_vars, clock_vars, sei_vars>>

NextRenderer ==
    \/ ConstructRenderer
    \/ RenderSample

SpecRenderer == InitRenderer /\ [][NextRenderer]_vars

----------------------------------------------------------------------------
(* The renderer constructed over PLY files: headers of a format line, the vertex
   element with its property lines, another element before or after it, and
   ASCII or binary bodies that are whole, short or empty *)

FormatLines ==
    { HeaderLine("format_ascii", 0, "", ""),
      HeaderLine("format_binary_little_endian", 0, "", ""),
      HeaderLine("format_other", 0, "", "") }

PropertyLines ==
    { HeaderLine("property", 0, "float", "x"),
      HeaderLine("property", 0, "uchar", "red"),
      HeaderLine("property", 0, "quad", "q"),
      HeaderLine("property_list", 0, "", "") }

\* an element that is not the vertex element, with a list property
FaceElement ==
    << HeaderLine("element_other", 0, "", ""), HeaderLine("property_list", 0, "", "") >>

PlyHeaders ==
    { << fmt >> \o before \o << HeaderLine("element_vertex", n, "", "") >> \o props \o after :
        fmt \in FormatLines, before \in { <<>>, FaceElement }, n \in 0..MaxVertices,
        props \in SeqsUpTo(PropertyLines, MaxProps), after \in { <<>>, FaceElement } }

\* a body line: empty, a whole vertex record, or a record short of values
PlyBodies ==
    { [lines |-> ls, bytes |-> 0] : ls \in SeqsUpTo({ "empty", "record", "short" }, MaxVertices) }
    \cup { [lines |-> <<>>, bytes |-> b] : b \in { 4, 5, 9, 10 } }

PlyFiles ==
    { MissingFile }
    \cup { [exists |-> TRUE, header |-> h, body |-> b] : h \in PlyHeaders, b \in PlyBodies }

InitPly ==
    /\ \E ply \in { "", "scene.ply" } :
         /\ args = parse_args([codec |-> "libx264", crf |-> DefaultCrf,
                               crf_ladder |-> <<>>, flags |-> {}, ply |-> ply])
         /\ ply_file \in IF ply = "" THEN { MissingFile, OnePointFile } ELSE PlyFiles
    /\ cuda_available = FALSE
    /\ registered = {}
    /\ trace = <<>>
    /\ faults = 0
    /\ MainStart

NextPly == ConstructRenderer

SpecPly == InitPly /\ [][NextPly]_vars

----------------------------------------------------------------------------
(* prepend_sei_packet over packet payloads of start-code bytes and other bytes *)

PayloadBytes == { 0, 1, 101 }

SeiPackets ==
    { [ data |-> d, pts |-> 3, dts |-> 2, duration |-> 1, pos |-> 40, flags |-> 1,
        stream_index |-> 0 ] : d \in SeqsUpTo(PayloadBytes, MaxPayload) }

InitSei ==
    /\ packet \in SeiPackets
    /\ \E item \in TraceItems, codec_id \in { "H264", "HEVC", "FFV1" } :
         prepend_call = [ packet |-> packet,
                          metadata |-> FrameMetadata(MovementSample(1, item)),
                          codec_id |-> codec_id, state |-> "handed" ]
    /\ args = parse_args([codec |-> "libx264", crf |-> DefaultCrf, crf_ladder |-> <<>>,
                          flags |-> {}, ply |-> ""])
    /\ ply_file = MissingFile
    /\ cuda_available = FALSE
    /\ registered = {}
    /\ trace = <<>>
    /\ faults = 0
    /\ movement = <<>> /\ pc = "load" /\ first_frame = NoFrame /\ frame = NoFrame
    /\ i = 0 /\ e = 0 /\ encoders = <<>> /\ failed_ctor = <<>>
    /\ metadata_writer = "none" /\ sidecar = <<>> /\ files = {}
    /\ render_log = <<>> /\ call_log = <<>> /\ error = FALSE /\ exit_code = -1
    /\ renderer = NoRenderer /\ backend_log = <<>>
    /\ now = 0 /\ start_clock = 0 /\ pace_log = <<>>

\* tigas_encoder.cpp:108-137
PrependSei ==
    /\ prepend_call.state = "handed"
    /\ \E alloc_ok \in BOOLEAN :
         /\ packet' = PrependedPacket(packet, prepend_call.metadata,
                                      prepend_call.codec_id, alloc_ok)
         /\ prepend_call' =
                [prepend_call EXCEPT !.state =
                    IF prepend_call.codec_id \notin { "H264", "HEVC" } THEN "left"
                    ELSE IF alloc_ok THEN "rewritten" ELSE "alloc_failed"]
    /\ UNCHANGED <<main_vars, env_vars, renderer_vars, clock_vars>>

NextSei == PrependSei

SpecSei == InitSei /\ [][NextSei]_vars

----------------------------------------------------------------------------
(* main() under a clock that also advances while main() runs; the codec library
   returns no failure in these runs *)

InitPacing ==
    /\ \E flags \in SUBSET { "--live-dash", "--realtime" } :
         args = parse_args([codec |-> "libx264", crf |-> DefaultCrf, crf_ladder |-> <<>>,
                            flags |-> flags, ply |-> ""])
    /\ registered = AllEncoders
    /\ trace \in SeqsUpTo(TraceItems, MaxFrames)
    /\ ply_file = MissingFile
    /\ cuda_available = FALSE
    /\ faults = MaxFaults
    /\ MainStart

\* time passes between two statements of main()
Tick ==
    /\ pc # "done"
    /\ now + TickMs <= MaxClock
    /\ now' = now + TickMs
    /\ UNCHANGED <<main_vars, env_vars, renderer_vars, start_clock, pace_log, sei_vars>>

NextPacing ==
    \/ Next
    \/ Tick

SpecPacing == InitPacing /\ [][NextPacing]_vars

----------------------------------------------------------------------------
(* main() over traces whose tMs use the whole 64-bit range *)

\* tMs tokens of the trace file: 16, -5, 3000000000 (above 2^31) and
\* 4294967312 (2^32 + 16)
TimestampTexts ==
    { << "1", "6" >>,
      << "-", "5" >>,
      << "3", "0", "0", "0", "0", "0", "0", "0", "0", "0" >>,
      << "4", "2", "9", "4", "9", "6", "7", "3", "1", "2" >> }

WideTraceItems ==
    { [tMs |-> json_integer(text), width |-> DefaultWidth, height |-> DefaultHeight] :
        text \in TimestampTexts }

InitTrace ==
    /\ \E flags \in SUBSET { "--live-dash" } :
         args = parse_args([codec |-> "libx264", crf |-> DefaultCrf, crf_ladder |-> <<>>,
                            flags |-> flags, ply |-> ""])
    /\ registered = AllEncoders
    /\ trace \in SeqsUpTo(WideTraceItems, MaxFrames)
    /\ ply_file = MissingFile
    /\ cuda_available = FALSE
    /\ faults = MaxFaults
    /\ MainStart

SpecTrace == InitTrace /\ [][Next]_vars

----------------------------------------------------------------------------
(* Properties *)

EncodeCalls == SelectSeq(call_log, LAMBDA c : c.op = "encode_frame")

CallsOn(j) == SelectSeq(call_log, LAMBDA c : c.enc = j)

AllEncoderObjects ==
    { encoders[j] : j \in 1..Len(encoders) } \cup { failed_ctor[j] : j \in 1..Len(failed_ctor) }

\* the sample a frame or packet was rendered from
SourceOf(data_of) == movement[data_of + 1]

\* the lines of a text stream: the text between line feeds, and what follows the last one
RECURSIVE SplitLines(_, _)
SplitLines(stream, line) ==
    IF stream = <<>> THEN (IF line = <<>> THEN <<>> ELSE << line >>)
    ELSE IF Head(stream) = "\n" THEN << line >> \o SplitLines(Tail(stream), <<>>)
    ELSE SplitLines(Tail(stream), Append(line, Head(stream)))

Lines(stream) == SplitLines(stream, <<>>)

\* C1: every frame passed to an encoder's encode_frame has the width and height
\* the encoder was constructed with.
C1_FrameMatchesEncoder ==
    \A n \in 1..Len(call_log) :
        call_log[n].op = "encode_frame" =>
            /\ call_log[n].width = encoders[call_log[n].enc].width
            /\ call_log[n].height = encoders[call_log[n].enc].height

\* C2: the frames an encoder submits carry PTS 0, 1, 2, ... in call order; the
\* k-th encode_frame call (from 0) submits PTS k.
C2_PtsCountsCalls ==
    \A j \in 1..Len(encoders) :
        \A n \in 1..Len(encoders[j].submitted) :
            /\ encoders[j].submitted[n].pts = n - 1
            /\ encoders[j].submitted[n].call = n - 1

C2_Witness ==
    \E j \in 1..Len(encoders) :
        /\ Len(encoders[j].submitted) >= 2
        /\ encoders[j].next_pts_ = 2

\* C3: every encoder gets the frames of samples 0, 1, 2, ... in order without gap
\* or repetition and is flushed only after its last encode_frame; one iteration
\* hands the same frame to the lossless, the lossy, then the ladder encoders.
C3_FanOutOrder ==
    /\ \A j \in 1..Len(encoders) :
         LET calls == CallsOn(j)
         IN  \A n \in 1..Len(calls) :
               /\ calls[n].op = "encode_frame" => calls[n].data_of = n - 1
               /\ (calls[n].op = "flush" /\ n < Len(calls)) => calls[n + 1].op = "flush"
    /\ \A j \in 1..Len(encoders) :
         Role(j) = IF j = 1 THEN (IF args.live_dash THEN "lossy" ELSE "lossless")
                   ELSE IF j = 2 THEN "lossy" ELSE "ladder"
    /\ LET calls == EncodeCalls
       IN  /\ Len(calls) > 0 => (calls[1].enc = 1 /\ calls[1].data_of = 0)
           /\ \A n \in 1..(Len(calls) - 1) :
                \/ /\ calls[n + 1].data_of = calls[n].data_of
                   /\ calls[n + 1].enc = calls[n].enc + 1
                \/ /\ calls[n + 1].data_of = calls[n].data_of + 1
                   /\ calls[n].enc = Len(encoders)
                   /\ calls[n + 1].enc = 1

C3_Witness ==
    /\ pc = "done" /\ ~error
    /\ Len(encoders) = 3
    /\ Len(EncodeCalls) = 3 * MaxFrames
    /\ \A j \in 1..3 : Len(CallsOn(j)) = MaxFrames + 2

\* C4 as stated: a successful run on N samples calls render exactly N times.
C4_RenderOncePerSample ==
    (pc = "done" /\ ~error) => Len(render_log) = Len(movement)

\* C4 amended: a successful run on N samples calls render N + 1 times: once on
\* the first sample before the encoders exist, then once per sample in trace order.
C4_RenderProbePlusOncePerSample ==
    (pc = "done" /\ ~error) =>
        render_log = << 0 >> \o [n \in 1..Len(movement) |-> movement[n].frame_id]

C4_Witness == pc = "done" /\ ~error /\ Len(movement) = MaxFrames /\ Len(render_log) = MaxFrames + 1

\* the record "F,T" of a sample
C5_Line(sample) == to_string(sample.frame_id) \o << "," >> \o to_string(sample.t_ms)

\* C5: the sidecar is, at every point, the lines "F,T" of the samples processed so
\* far, each at position F and nowhere else; after a successful run it has N lines.
C5_SidecarLines ==
    LET lines == Lines(sidecar)
    IN  /\ Len(lines) <= Len(movement)
        /\ sidecar # <<>> => sidecar[Len(sidecar)] = "\n"
        /\ \A n \in 1..Len(movement) :
             movement[n].frame_id < Len(lines) =>
                /\ lines[movement[n].frame_id + 1] = C5_Line(movement[n])
                /\ \A m \in 1..Len(lines) :
                     lines[m] = C5_Line(movement[n]) => m = movement[n].frame_id + 1
        /\ pc \in { "render", "encode", "append" } => Len(lines) = i - 1
        /\ (pc \in { "flush", "unwind", "done" } /\ ~error) => Len(lines) = Len(movement)

C5_Witness ==
    /\ pc = "done" /\ ~error
    /\ Len(movement) = MaxFrames
    /\ Lines(sidecar)[2] = << "1", ",", "-", "5" >>

\* C6: every packet written to a muxer, the FFV1 encoder's included, has the record
\* of its source sample attached, as side data on its frame or as a prepended SEI.
C6_EveryPacketTagged ==
    \A j \in 1..Len(encoders) :
        \A n \in 1..Len(encoders[j].muxed) :
            LET p == encoders[j].muxed[n]
                m == FrameMetadata(SourceOf(p.data_of))
            IN  \/ p.side_data = [uuid |-> SeiUuid, text |-> sei_payload(m)]
                \/ p.prepended_sei = [uuid |-> SeiUuid, text |-> sei_payload(m)]

\* C7: every packet an H.264/HEVC encoder writes carries the SEI of its source
\* sample: from the codec where udu_sei was requested and the side data attached,
\* prepended in every other case.
C7_H26xPacketCarriesSei ==
    \A j \in 1..Len(encoders) :
        encoders[j].codec_id \in { "H264", "HEVC" } =>
            \A n \in 1..Len(encoders[j].muxed) :
                LET p == encoders[j].muxed[n]
                    want == [uuid |-> SeiUuid,
                             text |-> sei_payload(FrameMetadata(SourceOf(p.data_of)))]
                IN  IF encoders[j].udu_sei /\ p.side_data # NoSei
                    THEN p.codec_sei = want
                    ELSE p.prepended_sei = want

\* C8: only the first flush() of an encoder submits the end-of-stream frame and
\* writes the trailer; later ones, the destructor's included, do nothing, so a
\* destroyed encoder has written exactly one trailer.
C8_FlushOnce ==
    \A j \in 1..Len(encoders) :
        /\ encoders[j].eos <= 1
        /\ encoders[j].trailers <= 1
        /\ encoders[j].flush_calls >= 1 => (encoders[j].eos = 1 /\ encoders[j].trailers = 1)
        /\ encoders[j].state = "destroyed" => encoders[j].trailers = 1

C8_Witness ==
    /\ \E j \in 1..Len(encoders) :
         /\ encoders[j].state = "destroyed"
         /\ encoders[j].flush_calls = 2
         /\ encoders[j].trailers = 1
    /\ ~error

\* C9: once an encoder is gone, every resource it acquired was released exactly
\* once, on the success path, after a failed construction and after an encode error.
C9_ReleasedExactlyOnce ==
    pc = "done" =>
        \A enc \in AllEncoderObjects :
            \A r \in Resources :
                enc.released[r] = IF r \in enc.acquired THEN 1 ELSE 0

\* C10: once an error is raised nothing more is rendered, no encode_frame is
\* called again, no output file is removed, and the run ends with exit code 1.
C10_AbortOnError ==
    [][ /\ error => /\ error'
                    /\ render_log' = render_log
                    /\ EncodeCalls' = EncodeCalls
                    /\ sidecar' = sidecar
                    /\ pc' \in { "unwind", "done" }
        /\ files \subseteq files'
        /\ (~error /\ error') => pc' = "unwind"
        /\ (pc' = "done" /\ error') => exit_code' = 1 ]_vars

C10_Witness ==
    /\ pc = "done" /\ error /\ exit_code = 1
    /\ Len(movement) = MaxFrames
    /\ Len(EncodeCalls) = 2
    /\ Len(encoders) = 3
    /\ Len(render_log) = 2
    /\ files # {}

\* the encode_frame calls on encoder j that returned without throwing
Accepted(j) ==
    Len(SelectSeq(call_log, LAMBDA c : c.op = "encode_frame" /\ c.enc = j /\ ~c.failed))

PaceEntries == SelectSeq(pace_log, LAMBDA p : p.op = "pace")

LoopStarts == SelectSeq(pace_log, LAMBDA p : p.op = "start")

\* C11: when a step fails inside a flush() that main calls explicitly, the run
\* ends with exit code 1.
C11_ExplicitFlushFailureReported ==
    pc = "done" =>
        ((\E n \in 1..Len(call_log) :
              call_log[n].op = "flush" /\ call_log[n].explicit /\ call_log[n].failed)
         => exit_code = 1)

\* C12: when a run has ended, normally or by abort, the sidecar holds as many
\* records as each constructed encoder has accepted frames.
C12_RecordPerAcceptedFrame ==
    pc = "done" =>
        \A j \in 1..Len(encoders) : Len(Lines(sidecar)) = Accepted(j)

\* C12 amended: after a run that ended normally the sidecar holds one record per
\* sample and every encoder has accepted that many frames; after an aborted run
\* every constructed encoder has accepted as many frames as there are records,
\* or one more (the frame of the iteration that was aborted).
C12_RecordsMatchOrTrailByOne ==
    pc = "done" =>
        \A j \in 1..Len(encoders) :
            IF ~error
            THEN /\ Len(Lines(sidecar)) = Accepted(j)
                 /\ Accepted(j) = Len(movement)
            ELSE Accepted(j) \in { Len(Lines(sidecar)), Len(Lines(sidecar)) + 1 }

C12_Witness ==
    /\ pc = "done" /\ error
    /\ Len(encoders) = 3
    /\ Len(Lines(sidecar)) = 1
    /\ Accepted(1) = 2 /\ Accepted(2) = 2 /\ Accepted(3) = 1

\* C13: in live-DASH mode, whatever the CRF ladder, the only encoder ever
\* constructed, encoded to or flushed is the DASH one writing stream.mpd, no
\* lossless or ladder file is created, and the loop paces itself in real time.
C13_LiveDashOnlyDash ==
    args.live_dash =>
        /\ args.realtime
        /\ Len(encoders) + Len(failed_ctor) <= 1
        /\ \A enc \in AllEncoderObjects :
             /\ enc.output_path = << "stream.mpd" >>
             /\ enc.live_dash /\ ~enc.lossless
        /\ \A n \in 1..Len(call_log) : call_log[n].enc = 1
        /\ files \subseteq { << "stream.mpd" >>, MetadataPath }
        /\ \A n \in 1..Len(PaceEntries) :
             PaceEntries[n].slept = (PaceEntries[n].target > PaceEntries[n].at)

C13_Witness ==
    /\ args.live_dash /\ args.crf_ladder = << 26, 28 >>
    /\ pc = "done" /\ ~error
    /\ Len(encoders) = 1 /\ encoders[1].flush_calls = 2
    /\ Len(EncodeCalls) = MaxFrames
    /\ \E n \in 1..Len(PaceEntries) : PaceEntries[n].slept

\* the file name of ladder position idx
C14_Path(idx) == << "test_stream_lossy_p" >> \o to_string(idx) \o << ".mp4" >>

\* C14: outside live-DASH mode, once the encoders are constructed, the ladder
\* encoders are exactly one per ladder position (from 0) whose CRF differs from
\* the base CRF, writing test_stream_lossy_p<position>.mp4 with that CRF; the
\* ladder 26,28,30 with base 26 gives exactly p1 and p2.
C14_LadderEncoders ==
    (pc = "render" /\ ~args.live_dash) =>
        LET ladder == { j \in 1..Len(encoders) : j > 2 }
            want == { idx \in 0..(Len(args.crf_ladder) - 1) :
                        args.crf_ladder[idx + 1] # args.crf }
            made(j, idx) == /\ encoders[j].output_path = C14_Path(idx)
                            /\ encoders[j].crf = args.crf_ladder[idx + 1]
        IN  /\ Cardinality(ladder) = Cardinality(want)
            /\ \A idx \in want : \E j \in ladder : made(j, idx)
            /\ \A j \in ladder : \E idx \in want : made(j, idx)
            /\ (args.crf_ladder = << 26, 28, 30 >> /\ args.crf = 26) =>
                   { encoders[j].output_path : j \in ladder }
                       = { << "test_stream_lossy_p", "1", ".mp4" >>,
                           << "test_stream_lossy_p", "2", ".mp4" >> }

C14_Witness ==
    /\ pc = "render" /\ ~args.live_dash
    /\ args.crf_ladder = << 26, 28, 30 >> /\ args.crf = 26
    /\ Len(encoders) = 4
    /\ encoders[3].crf = 28 /\ encoders[4].crf = 30

\* C15: use_cuda_ starts as prefer_cuda and available; the backend is called
\* exactly in the calls that find use_cuda_ set and points loaded; a call in which
\* the backend fails still returns a frame of the CPU path, clears use_cuda_ for
\* good, so that the backend is never called again, and the diagnostic is written
\* at most once in the life of the renderer.
C15_CudaFallback ==
    LET log == backend_log
        n == Len(log)
    IN  /\ renderer.state = "live" =>
               (IF n = 0 THEN renderer.use_cuda_ ELSE log[1].use_cuda_before)
                   = (args.prefer_cuda /\ cuda_available)
        /\ \A k \in 1..n :
             /\ log[k].backend_called
                    = (log[k].use_cuda_before /\ renderer.points_ # NoPoints)
             /\ (log[k].backend_called /\ ~log[k].backend_ok) =>
                    /\ log[k].path = "splat"
                    /\ log[k].frame.data_len = 3 * log[k].frame.width * log[k].frame.height
                    /\ ~renderer.use_cuda_
                    /\ \A m \in (k + 1)..n :
                         ~log[m].use_cuda_before /\ ~log[m].backend_called
        /\ Cardinality({ k \in 1..n : log[k].warned }) <= 1
        /\ (\E k \in 1..n : log[k].backend_called /\ ~log[k].backend_ok)
               => Cardinality({ k \in 1..n : log[k].warned }) = 1

C15_Witness ==
    /\ Len(backend_log) = 3
    /\ backend_log[1].backend_called /\ backend_log[1].backend_ok
    /\ backend_log[2].backend_called /\ ~backend_log[2].backend_ok /\ backend_log[2].warned
    /\ ~backend_log[3].backend_called /\ backend_log[3].path = "splat"
    /\ ~renderer.use_cuda_

C16_Pacing ==
    /\ \A n \in 1..Len(PaceEntries) :
         LET p == PaceEntries[n]
         IN  /\ p.target = start_clock + movement[p.sample + 1].t_ms
             /\ p.slept => (args.realtime /\ p.target > p.at /\ p.woke >= p.target)
             /\ p.target <= p.at => (~p.slept /\ p.woke = p.at)
             /\ ~args.realtime => ~p.slept
             /\ p.woke >= p.at
             /\ now >= p.woke
    /\ args.realtime =>
          \A n \in 2..Len(LoopStarts) :
              LoopStarts[n].at >= start_clock + movement[n - 1].t_ms

C16_Witness ==
    /\ pc = "done" /\ args.realtime /\ ~args.live_dash
    /\ start_clock > 0
    /\ Len(PaceEntries) = 2 /\ Len(LoopStarts) = 2
    /\ PaceEntries[1].slept /\ PaceEntries[1].at > start_clock
    /\ ~PaceEntries[2].slept /\ PaceEntries[2].target < start_clock
    /\ LoopStarts[2].at >= start_clock + 16

\* a property list line stands in the vertex element of the header
ListInVertexElement(header) ==
    \E k \in 1..Len(header) :
        /\ header[k].kind = "property_list"
        /\ \E j \in 1..(k - 1) :
             /\ header[j].kind = "element_vertex"
             /\ \A m \in (j + 1)..(k - 1) : header[m].kind # "element_other"

\* C17: the constructor throws exactly when the path is not empty and the loader
\* returned no point; with an empty path it succeeds with no point; a file with
\* a property list line in its vertex element loads to no point and so fails it.
C17_LoadFailed ==
    renderer.state # "none" =>
        /\ (renderer.state = "ctor_threw")
               = (args.ply_path # "" /\ renderer.points_ = NoPoints)
        /\ args.ply_path = "" => (renderer.state = "live" /\ renderer.points_ = NoPoints)
        /\ (args.ply_path # "" /\ ply_file.exists /\ ListInVertexElement(ply_file.header))
               => (renderer.points_ = NoPoints /\ renderer.state = "ctor_threw")

C17_Witness ==
    /\ renderer.state = "ctor_threw"
    /\ ply_file.exists
    /\ ply_file.header = << HeaderLine("format_ascii", 0, "", ""),
                            HeaderLine("element_vertex", 2, "", ""),
                            HeaderLine("property", 0, "float", "x"),
                            HeaderLine("property_list", 0, "", "") >>
    /\ ply_file.body.lines = << "record", "record" >>

\* bytes of one vertex record; 0 when a property has a type of unknown size
RECURSIVE C18_RecordBytes(_)
C18_RecordBytes(props) ==
    IF props = <<>> THEN 0
    ELSE LET size == scalar_size_bytes(Head(props).type)
             rest == C18_RecordBytes(Tail(props))
         IN  IF size = 0 \/ (Tail(props) # <<>> /\ rest = 0) THEN 0 ELSE size + rest

\* whole vertex records in the body, as the reader of the header's format counts them
C18_WholeRecords(file) ==
    LET h == ParseHeader(HeaderStart, file.header)
    IN  IF h.ascii
        THEN Cardinality({ n \in 1..Len(file.body.lines) : file.body.lines[n] = "record" })
        ELSE IF C18_RecordBytes(h.vertex_properties) = 0 THEN 0
        ELSE file.body.bytes \div C18_RecordBytes(h.vertex_properties)

\* C18: an ASCII or binary file whose body holds fewer whole vertex records than
\* the header's vertex count loads to no point at all, and so does a missing file.
C18_TruncatedLoadsNothing ==
    (renderer.state # "none" /\ args.ply_path # "") =>
        LET h == ParseHeader(HeaderStart, ply_file.header)
        IN  /\ ~ply_file.exists => renderer.points_ = NoPoints
            /\ (/\ ply_file.exists
                 /\ (h.ascii \/ h.binary_little_endian)
                 /\ C18_WholeRecords(ply_file) < h.vertex_count)
                   => renderer.points_ = NoPoints

\* the payload begins with the start code 00 00 01 or 00 00 00 01
C20_BeginsWithStartCode(d) ==
    \/ (Len(d) >= 3 /\ SubSeq(d, 1, 3) = << 0, 0, 1 >>)
    \/ (Len(d) >= 4 /\ SubSeq(d, 1, 4) = << 0, 0, 0, 1 >>)

\* C20: the payload of a rewritten H.264/HEVC packet is the SEI NAL, behind
\* 00 00 00 01 exactly when the original payload begins with a start code and
\* behind its 4-byte big-endian length otherwise, followed by the original
\* payload; pts, dts, duration, pos, flags and stream_index are the original's.
C20_PrependFraming ==
    prepend_call.state = "rewritten" =>
        LET orig == prepend_call.packet
            nal == build_sei_nal_payload(prepend_call.metadata, prepend_call.codec_id)
            size == Len(nal)
            framing == IF C20_BeginsWithStartCode(orig.data)
                       THEN << 0, 0, 0, 1 >> \o nal
                       ELSE << 0, 0, 0, size >> \o nal
        IN  /\ size < 256
            /\ packet.data = framing \o orig.data
            /\ packet.pts = orig.pts /\ packet.dts = orig.dts
            /\ packet.duration = orig.duration /\ packet.pos = orig.pos
            /\ packet.flags = orig.flags /\ packet.stream_index = orig.stream_index


\* the tMs token of the n-th trace element
TimestampText(n) == CHOOSE text \in TimestampTexts : json_integer(text) = trace[n].tMs

\* C21: for every trace element, whatever 64-bit value its tMs has, the loaded
\* sample's t_ms and the FrameMetadata timestamp_ms equal that tMs, the sidecar
\* record of the sample is "F," followed by the tMs as written in the trace, and
\* the SEI text of every packet of the sample ends with that same tMs.
C21_TimestampExact ==
    \A n \in 1..Len(movement) :
        LET sample == movement[n]
            lines == Lines(sidecar)
        IN  /\ int64_t(sample.t_ms) = trace[n].tMs
            /\ int64_t(FrameMetadata(sample).timestamp_ms) = trace[n].tMs
            /\ sample.frame_id < Len(lines) =>
                   lines[sample.frame_id + 1]
                       = to_string(sample.frame_id) \o << "," >> \o TimestampText(n)
            /\ \A j \in 1..Len(encoders) :
                   \A k \in 1..Len(encoders[j].muxed) :
                       LET p == encoders[j].muxed[k]
                           want == << "frame_id=" >> \o to_string(sample.frame_id)
                                       \o << ";timestamp_ms=" >> \o TimestampText(n)
                       IN  p.data_of = sample.frame_id =>
                              \/ p.side_data.text = want
                              \/ p.prepended_sei.text = want

====
